---- MODULE Spec2Model ----
(***************************************************************************)
(* Model of the calculation server of orca-external-tools                  *)
(* (src/src/oet/server_client/server.py): the CoreLimiter admission gate,  *)
(* OtoolServer.handle_client, the ProcessPoolExecutor it submits to, the   *)
(* worker entry point _run_calc_in_process with its per-process calculator *)
(* cache, and the Flask route /calculate that turns results and exceptions *)
(* into responses.                                                         *)
(*                                                                         *)
(* Every `with self._cv:` block of CoreLimiter is one atomic step: all     *)
(* accesses to `available` are made under that lock.  The body of          *)
(* _run_calc_in_process up to the call of calc.run is one step as well:    *)
(* the cache is private to the worker process.                             *)
(***************************************************************************)
EXTENDS Integers, Sequences, FiniteSets, TLC

\* ---- bounds of the model ----
\* number of /calculate requests the server under concurrent load receives
NReq == 2
\* number of jobs the single-threaded server runs one after the other
NJobs == 3
\* --nthreads of the server under concurrent load
Total == 2
\* longest text a backend run writes to its standard output
MaxOut == 1

\* ---- program constants ----
\* default of --nthreads
DefaultThreads == 1
\* default of --memory-per-thread, in MiB
MemLimit == 500

\* cache keys (module, class, frozenset of the method-specific arguments)
Keys == {"k1", "k2", "k3"}
\* characters a backend can print
Chars == {"a", "b"}
\* what a backend's run can raise: Exception subclasses, and the SystemExit of
\* the sys.exit() calls in oet.core.misc.run_command and the xtb/gxtb parsers
BackendExcTypes == {"RuntimeError", "SystemExit"}

NoKey == "nokey"
NoThread == 0
NoInst == 0

VARIABLES
    total,       \* CoreLimiter.total = args.nthreads: cores, pool size, server threads
    argsets,     \* the cache keys the clients' argument lists map to
    nreq,        \* requests the clients send in this run
    maxout,      \* longest text a backend run prints in this run
    chars,       \* the characters the backends print in this run
    nsent,       \* requests received so far
    available,   \* CoreLimiter.available
    pc,          \* per server thread: position in calculate / handle_client
    demand,      \* per server thread: ncores_job of its request
    key,         \* per server thread: cache key derived from the request's arguments
    outcome,     \* per server thread: what handle_client returned or raised
    response,    \* per server thread: the answer of calculate to its last request
    fut,         \* per server thread: state of the future of its job
    queue,       \* work items submitted to the pool and not yet picked up
    broken,      \* the executor is broken (a worker process died)
    wphase,      \* per worker process: idle | run | dead
    wjob,        \* per worker process: the thread whose job it executes
    cache,       \* per worker process: _WORKER_CALC_CACHE, LRU first
    calc,        \* per worker process: the instance serving the current job
    buf,         \* per worker process: the StringIO of the current job
    ninst,       \* per worker process: calculators constructed so far
    acqs,        \* history: number of acquire calls that returned for the request
    rels,        \* history: number of release calls made for the request
    held,        \* history: cores acquired minus cores released for the request
    written,     \* history: text the request's run printed in its (living) worker
    ended,       \* history: how calc.run ended for the request: returned | raised
    served,      \* history, per worker: the instance that served the first job of a key
    evicted,     \* history, per worker: keys whose entry was evicted at some time
    down         \* the server process: up | stopping (after SIGTERM) | exited

vars == <<total, argsets, nreq, maxout, chars, nsent, available, pc, demand, key, outcome, response, fut,
          queue, broken, wphase, wjob, cache, calc, buf, ninst, acqs, rels, held, written,
          ended, served, evicted, down>>

\* what a run is started with
runConf == <<total, argsets, nreq, maxout, chars>>
\* what no request and no job changes: the configuration of the run and
\* whether the server process was told to terminate
confVars == <<runConf, down>>
limiterVars == <<available, acqs, rels, held>>
poolVars == <<fut, queue, broken>>
workerVars == <<wphase, wjob, cache, calc, buf, ninst, served, evicted>>
runVars == <<written, ended>>

\* waitress serves with threads=args.nthreads
Threads == 1 .. total

\* mutant: a pool with one worker process less than the limiter has cores
Workers_OneFewer == 1 .. (total - 1)

\* ProcessPoolExecutor(max_workers=args.nthreads)
Workers == 1 .. total
\* core counts an input file can declare and get_ncores_from_input returns
Demands == 1 .. (total + 1)

\* ---------------------------------------------------------------------
\* Exceptions and their transport
\* ---------------------------------------------------------------------

\* An exception object: its class, BaseException.args and its __dict__
\* (a set of <<attribute, value>> pairs).
Exc(type, args, dict) == [type |-> type, args |-> args, dict |-> dict]

\* CalculatorRuntimeException.__init__(self, stdout): BaseException.__new__
\* stores the constructor arguments in args, __init__ sets self.stdout.
CalculatorRuntimeException(stdout) ==
    Exc("CalculatorRuntimeException", <<stdout>>, {<<"stdout", stdout>>})

\* raise ValueError(f"Requested {n} cores but only {self.total} total available.")
\* (a message is a one-element text)
CapacityError == Exc("ValueError", <<<<"Requested more cores than total available">>>>, {})

\* mutant: the pool reports a dead worker like a failed run
BrokenProcessPool_AsRunFailure == CalculatorRuntimeException(<<>>)

\* concurrent.futures.process.BrokenProcessPool
BrokenProcessPool == Exc("BrokenProcessPool", <<<<"process pool terminated">>>>, {})

\* submit on an executor that was shut down:
\* RuntimeError('cannot schedule new futures after shutdown')
ShutdownError == Exc("RuntimeError", <<<<"cannot schedule new futures after shutdown">>>>, {})

\* concurrent.futures.CancelledError, raised by result() of a cancelled future
CancelledError == Exc("CancelledError", <<<<>>>>, {})

\* the exceptions get_ncores_from_input raises
InputError(type) == Exc(type, <<<<"input file">>>>, {})

\* raise ValueError("NCores must be a positive integer.")
NotPositive == Exc("ValueError", <<<<"NCores must be a positive integer.">>>>, {})

\* what a backend's run raises
BackendError(type) == Exc(type, <<<<"backend failed">>>>, {})

\* failure of importlib.import_module / getattr / Cls()
ConstructError == Exc("ImportError", <<<<"no module">>>>, {})

\* what memory_info() raises when the memory of the process cannot be read
MeasureError == Exc("AccessDenied", <<<<"memory">>>>, {})

\* isinstance(e, Exception): SystemExit derives from BaseException only
IsException(e) == e.type # "SystemExit"

\* BaseException.__reduce__: (class, args, __dict__); __cause__ is not kept
Reduce(e) == <<e.type, e.args, e.dict>>

\* rebuilding in the parent: cls(*args), then __dict__.update(state)
Rebuild(red) ==
    LET type == red[1]
        args == red[2]
        state == red[3]
        made == IF type = "CalculatorRuntimeException"
                THEN CalculatorRuntimeException(args[1])
                ELSE Exc(type, args, {})
    IN  Exc(made.type, made.args,
            {p \in made.dict : \A q \in state : q[1] # p[1]} \cup state)

\* the exception as it arrives in the parent process through the result queue
AcrossProcess(e) == Rebuild(Reduce(e))

\* str(e) of BaseException: the single argument, or the tuple of them
Str(e) == IF Len(e.args) = 1 THEN e.args[1] ELSE e.args

HasAttr(e, name) == \E p \in e.dict : p[1] = name
GetAttr(e, name) == (CHOOSE p \in e.dict : p[1] = name)[2]


\* ---------------------------------------------------------------------
\* The worker's calculator cache (_WORKER_CALC_CACHE), least recently used first
\* ---------------------------------------------------------------------

Entry(k, inst) == [key |-> k, inst |-> inst]

CacheKeys(c) == {c[i].key : i \in 1 .. Len(c)}

\* _WORKER_CALC_CACHE.get(key)
CacheGet(c, k) ==
    IF k \in CacheKeys(c)
    THEN (CHOOSE i \in 1 .. Len(c) : c[i].key = k)
    ELSE 0

\* _WORKER_CALC_CACHE.pop(k, None)
CachePop(c, k) == SelectSeq(c, LAMBDA e : e.key # k)

\* mutant: a hit does not refresh the position of the entry
MoveToEnd_Stays(c, k) == c

\* _WORKER_CALC_CACHE.move_to_end(k)
MoveToEnd(c, k) ==
    IF k \in CacheKeys(c)
    THEN Append(CachePop(c, k), c[CacheGet(c, k)])
    ELSE c

\* mutant: the protected key is not skipped
PopScan_NoProtect(c, ks, protected_key) ==
    IF ks = <<>>
    THEN [cache |-> c, popped |-> FALSE]
    ELSE [cache |-> CachePop(c, Head(ks)), popped |-> TRUE]

\* the loop of _pop_one_worker over the snapshot ks of the keys
RECURSIVE PopScan(_, _, _)
PopScan(c, ks, protected_key) ==
    IF ks = <<>>
    THEN [cache |-> c, popped |-> FALSE]
    ELSE IF protected_key # NoKey /\ Head(ks) = protected_key
         THEN PopScan(MoveToEnd(c, Head(ks)), Tail(ks), protected_key)
         ELSE [cache |-> CachePop(c, Head(ks)), popped |-> TRUE]

_pop_one_worker(c, protected_key) ==
    PopScan(c, [i \in 1 .. Len(c) |-> c[i].key], protected_key)

\* target = max(mem_limit_mib - int(mem_limit_mib * 0.05), int(mem_limit_mib * 0.5))
Max(a, b) == IF a >= b THEN a ELSE b
Target(mem_limit_mib) ==
    Max(mem_limit_mib - ((mem_limit_mib * 5) \div 100), (mem_limit_mib * 5) \div 10)

\* psutil.Process(os.getpid()).memory_info() raises (psutil.AccessDenied,
\* psutil.NoSuchProcess, an OSError of the platform): there is no reading
NoReading == -1
\* resident memory readings (MiB) around the threshold
RssValues == {Target(MemLimit), Target(MemLimit) + 1}
\* one reading before the loop and one after every eviction, each of which
\* can fail; a cache of n entries one of which is protected sees at most
\* n - 1 evictions
Readings(n) == [1 .. n -> RssValues \cup {NoReading}]

\* `rss is None`: rss is the quotient memory_info().rss / (1024**2), a float
IsNone(rss) == FALSE

\* the while loop of _evict_until_within_limits; meas are the readings still
\* to come, the first of them is the value of rss the condition tests
RECURSIVE EvictLoop(_, _, _, _)
EvictLoop(c, meas, target, protected_key) ==
    IF Head(meas) = NoReading
    THEN [cache |-> c, raised |-> TRUE]
    ELSE IF Head(meas) > target /\ c # <<>>
    THEN LET r == _pop_one_worker(c, protected_key)
         IN  IF ~r.popped
             THEN [cache |-> r.cache, raised |-> FALSE]
             ELSE EvictLoop(r.cache, Tail(meas), target, protected_key)
    ELSE [cache |-> c, raised |-> FALSE]

\* the result is the cache it leaves, and whether it was left by the
\* exception of a reading
_evict_until_within_limits(c, meas, mem_limit_mib, protected_key) ==
    IF Head(meas) # NoReading /\ IsNone(Head(meas))
    THEN [cache |-> c, raised |-> FALSE]
    ELSE EvictLoop(c, meas, Target(mem_limit_mib), protected_key)

\* _run_calc_in_process up to the call of calc.run, for a job with cache key k
\* in a worker whose cache is c and which has constructed n calculators:
\* look the key up, construct on a miss (constructs = FALSE: the import, the
\* class lookup or the constructor raises), mark most recently used, evict.
\* (GetOrCreate_NoReuse is the mutant that constructs for every job.)
GetOrCreate_NoReuse(c, k, n, constructs) ==
    IF constructs
    THEN [cache |-> Append(CachePop(c, k), Entry(k, n + 1)), calc |-> n + 1,
          ninst |-> n + 1, failed |-> FALSE]
    ELSE [cache |-> c, calc |-> NoInst, ninst |-> n, failed |-> TRUE]

\* mutant: the lookup ignores the key and hands out the cached instance
GetOrCreate_AnyKey(c, k, n, constructs) ==
    IF c # <<>>
    THEN [cache |-> c, calc |-> c[1].inst, ninst |-> n, failed |-> FALSE]
    ELSE IF constructs
         THEN [cache |-> Append(c, Entry(k, n + 1)), calc |-> n + 1,
               ninst |-> n + 1, failed |-> FALSE]
         ELSE [cache |-> c, calc |-> NoInst, ninst |-> n, failed |-> TRUE]

\* mutant: the key of a failed construction is entered without a calculator
GetOrCreate_KeepsFailed(c, k, n, constructs) ==
    LET i == CacheGet(c, k)
    IN  IF i # 0
        THEN [cache |-> MoveToEnd(c, k), calc |-> c[i].inst, ninst |-> n, failed |-> FALSE]
        ELSE IF constructs
             THEN [cache |-> Append(c, Entry(k, n + 1)), calc |-> n + 1,
                   ninst |-> n + 1, failed |-> FALSE]
             ELSE [cache |-> Append(c, Entry(k, NoInst)), calc |-> NoInst, ninst |-> n,
                   failed |-> TRUE]

GetOrCreate(c, k, n, constructs) ==
    LET i == CacheGet(c, k)
    IN  IF i # 0
        THEN [cache |-> MoveToEnd(c, k), calc |-> c[i].inst, ninst |-> n, failed |-> FALSE]
        ELSE IF constructs
             THEN [cache |-> Append(c, Entry(k, n + 1)), calc |-> n + 1,
                   ninst |-> n + 1, failed |-> FALSE]
             ELSE [cache |-> c, calc |-> NoInst, ninst |-> n, failed |-> TRUE]

\* the cache, the instance and the exception (if failed) the job goes on with
PrepareCalc(c, k, n, constructs, meas) ==
    LET g == GetOrCreate(c, k, n, constructs)
        e == _evict_until_within_limits(g.cache, meas, MemLimit, k)
    IN  IF g.failed
        THEN [cache |-> g.cache, calc |-> NoInst, ninst |-> g.ninst,
              failed |-> TRUE, exc |-> ConstructError]
        ELSE [cache |-> e.cache, calc |-> g.calc, ninst |-> g.ninst,
              failed |-> e.raised, exc |-> MeasureError]

NoOutcome == [kind |-> "none"]
Returned(out) == [kind |-> "ok", stdout |-> out]
Raised(e) == [kind |-> "exc", exc |-> e]
\* calculate returns a dict it built itself, before it calls handle_client
Refused(message) == [kind |-> "refused", message |-> message]

NoResponse == [status |-> "none"]

\* ---------------------------------------------------------------------
\* CoreLimiter
\* ---------------------------------------------------------------------

\* mutant: no fail-fast check
TooLarge_Never(n) == FALSE

\* acquire: `if n > self.total: raise ValueError`
TooLarge(n) == n > total

\* mutant: acquire never waits
MustWait_Never(n, av) == FALSE

\* mutant: the wait predicate is off by one
MustWait_OffByOne(n, av) == n > av + 1

\* acquire: `while n > self.available: self._cv.wait()`
MustWait(n, av) == n > av

\* mutant: release gives back one core too few
Released_Lossy(av, n) == IF av + n - 1 > total THEN total ELSE av + n - 1

\* release: `self.available += n`, clamped to self.total
Released(av, n) == IF av + n > total THEN total ELSE av + n

\* mutant: release notifies nobody
NotifyAll_Nobody(p) == p

\* release: `self._cv.notify_all()` moves every thread out of wait()
NotifyAll(p) == [t \in Threads |-> IF p[t] = "waiting" THEN "notified" ELSE p[t]]

\* the finally clause of handle_client: self.core_limiter.release(ncores_job)
FinallyRelease(ncores_job) == ncores_job

\* ---------------------------------------------------------------------
\* The route /calculate
\* ---------------------------------------------------------------------

\* the dict calculate builds in `except Exception as e`
ErrorResponse(e) ==
    IF e.type = "CalculatorRuntimeException"
    THEN [status |-> "Error", error_message |-> Str(e), error_type |-> e.type,
          traceback |-> "traceback", stdout |-> GetAttr(e, "stdout")]
    ELSE [status |-> "Error", error_message |-> Str(e), error_type |-> e.type,
          traceback |-> "traceback"]

\* calculate left by an exception that `except Exception` does not catch:
\* the view returns no JSON object
Unhandled == [status |-> "unhandled"]

\* the dict of the three early returns of calculate
RefusedResponse(message) ==
    [status |-> "Error", error_message |-> message, error_type |-> "ValueError"]

\* what calculate makes of its own checks and of the result of handle_client
CalculateResponse(o) ==
    IF o.kind = "ok"
    THEN [status |-> "Success", stdout |-> o.stdout]
    ELSE IF o.kind = "refused"
    THEN RefusedResponse(o.message)
    ELSE IF IsException(o.exc) THEN ErrorResponse(o.exc) ELSE Unhandled

\* healthz: jsonify({"status": "OK"})
HealthResponse == [status |-> "OK"]

\* ---- the payload of a request ----

\* JSON values as request.get_json() returns them
JNull == [type |-> "null"]
JStr(s) == [type |-> "str", val |-> s]
JList(items) == [type |-> "list", val |-> items]
\* a JSON object; data.get(name) of a missing member is None
JDict(arguments, directory) ==
    [type |-> "dict", arguments |-> arguments, directory |-> directory]
\* a body that is no JSON text: get_json(force=True, silent=False) raises
NotJson == [type |-> "invalid"]

\* werkzeug.exceptions.BadRequest, raised by get_json
BadRequest == Exc("BadRequest", <<<<"400 Bad Request">>>>, {})

\* the file system the server sees: directories, and a file
WorkDir == "/work"
PlainFile == "/work/mol.xyz"
MissingDir == "/gone"
\* Path.exists() and Path.is_dir()
Exists(path) == path \in {WorkDir, PlainFile}
IsDir(path) == path = WorkDir

\* the tokens of an argument list: the name of the input file and a
\* method-specific flag
InputName == "job.inp"
Flag == "--fast"
IsPositional(token) == token # Flag

\* parser.parse_known_args(arguments) of parse_client_input: the first
\* positional token is the input file, `found` is FALSE where argparse
\* reports the missing positional with parser.error(), i.e. sys.exit(2)
RECURSIVE ParseKnownArgs(_)
ParseKnownArgs(arguments) ==
    IF arguments = <<>>
    THEN [found |-> FALSE, inputfile |-> "", rest |-> <<>>]
    ELSE IF IsPositional(Head(arguments))
    THEN [found |-> TRUE, inputfile |-> Head(arguments), rest |-> Tail(arguments)]
    ELSE LET r == ParseKnownArgs(Tail(arguments))
         IN  [r EXCEPT !.rest = <<Head(arguments)>> \o @]

\* SystemExit(2) of ArgumentParser.error
ParserExit == Exc("SystemExit", <<<<"2">>>>, {})

\* ---- the cache key ----

\* the calculator the server was started for (calc_class.import_module,
\* calc_class.calculator_name)
CalcModule == "oet.calculator.uma"
CalcClass == "UmaCalc"

\* the dest names of the options a calculator's extend_parser declares, in
\* the order of Python's string comparison, and values they take
OptionNames == <<"basemodel", "param">>
OptionValues == {"s", "m"}
NameRank(name) == CHOOSE i \in 1 .. Len(OptionNames) : OptionNames[i] = name

\* an item of a dict: (name, value)
Item(name, value) == <<name, value>>

\* sorted(d.items()): the names of a dict differ, so the comparison of two
\* items is decided by their names (insertion sort)
RECURSIVE Insert(_, _)
Insert(item, sorted) ==
    IF sorted = <<>>
    THEN <<item>>
    ELSE IF NameRank(item[1]) <= NameRank(Head(sorted)[1])
         THEN <<item>> \o sorted
         ELSE <<Head(sorted)>> \o Insert(item, Tail(sorted))

\* mutant: the items stay in the order of the dict
Sorted_AsGiven(items) == items

RECURSIVE Sorted(_)
Sorted(items) ==
    IF items = <<>> THEN <<>> ELSE Insert(Head(items), Sorted(Tail(items)))

\* the run_kwargs handle_client submits; args_parsed is a dict, given by its
\* items in insertion order
RunKwargs(inputfile, args_parsed, args_not_parsed, directory) ==
    [inputfile |-> inputfile, args_parsed |-> args_parsed,
     args_not_parsed |-> args_not_parsed, directory |-> directory]

\* key = (calc_module, calc_class, frozenset(method_specific_args.items()))
MethodKey(calc_module, calc_class, run_kwargs) ==
    LET args_parsed_frozen == Sorted(run_kwargs.args_parsed)
        args_not_parsed_frozen == run_kwargs.args_not_parsed
    IN  <<calc_module, calc_class,
          {Item("args_parsed", args_parsed_frozen),
           Item("args_not_parsed", args_not_parsed_frozen)}>>

\* method-specific arguments that give a key
ArgsOfKey(k) ==
    IF k = "k1" THEN <<>> ELSE IF k = "k2" THEN <<Flag>> ELSE <<Flag, Flag>>

\* the cache key _run_calc_in_process derives for a request whose unparsed
\* arguments are rest (the parser of the model declares no options: args_parsed
\* is the empty dict), by the name the model gives it
KeyOfArgs(rest) ==
    LET made == MethodKey(CalcModule, CalcClass, RunKwargs(InputName, <<>>, rest, WorkDir))
    IN  CHOOSE k \in Keys :
           made = MethodKey(CalcModule, CalcClass,
                            RunKwargs(InputName, <<>>, ArgsOfKey(k), WorkDir))

\* ---- the input file ----

\* an input file: absent, or the first entries of its non-blank lines
NoFile == [exists |-> FALSE, lines |-> <<>>]
File(lines) == [exists |-> TRUE, lines |-> lines]
\* an ORCA input whose fourth line holds the given entry
OrcaInput(ncores) == File(<<"mol.xyz", "0", "1", ncores, "1">>)
\* an input cut short
ShortInput == File(<<"mol.xyz", "0">>)

\* int(token) for the decimal numerals in use; int raises ValueError for
\* every other token
Numerals == <<"1", "2", "3", "4", "5", "6", "7", "8", "9">>
IsNumeral(token) ==
    token \in {"0", "-1"} \/ \E i \in 1 .. Len(Numerals) : Numerals[i] = token
IntOf(token) ==
    IF token = "0" THEN 0
    ELSE IF token = "-1" THEN 0 - 1
    ELSE CHOOSE i \in 1 .. Len(Numerals) : Numerals[i] = token

\* mutant: no sanity check of the core count
get_ncores_from_input_NoSanityCheck(file) ==
    IF ~file.exists
    THEN [raised |-> TRUE, exc |-> InputError("FileNotFoundError"), ncores |-> 0]
    ELSE IF Len(file.lines) < 4
    THEN [raised |-> TRUE, exc |-> InputError("IndexError"), ncores |-> 0]
    ELSE IF ~IsNumeral(file.lines[4])
    THEN [raised |-> TRUE, exc |-> InputError("ValueError"), ncores |-> 0]
    ELSE [raised |-> FALSE, exc |-> InputError("ValueError"), ncores |-> IntOf(file.lines[4])]

\* get_ncores_from_input: the core count, or the exception raised
get_ncores_from_input(file) ==
    IF ~file.exists
    THEN [raised |-> TRUE, exc |-> InputError("FileNotFoundError"), ncores |-> 0]
    ELSE IF Len(file.lines) < 4
    THEN [raised |-> TRUE, exc |-> InputError("IndexError"), ncores |-> 0]
    ELSE IF ~IsNumeral(file.lines[4])
    THEN [raised |-> TRUE, exc |-> InputError("ValueError"), ncores |-> 0]
    ELSE IF IntOf(file.lines[4]) < 1
    THEN [raised |-> TRUE, exc |-> NotPositive, ncores |-> 0]
    ELSE [raised |-> FALSE, exc |-> InputError("ValueError"), ncores |-> IntOf(file.lines[4])]

\* ---- calculate and handle_client up to the call of acquire ----

\* mutant: the core count is taken from the argument list
NcoresJob_FromArguments(arguments, file) ==
    LET n == get_ncores_from_input(file)
    IN  IF n.raised THEN n ELSE [n EXCEPT !.ncores = @ + Len(arguments) - 1]

\* ncores_job of handle_client for a non-empty parse: read from the file
\* at working_dir / inputfile
NcoresJob(arguments, file) == get_ncores_from_input(file)

\* mutant: calculate does not check the directory
BadDirectory_Unchecked(directory) == FALSE

\* `not p.exists() or not p.is_dir()`
BadDirectory(directory) == ~Exists(directory) \/ ~IsDir(directory)

\* what becomes of a request with JSON body data whose input file is file:
\* refused by calculate, failed in handle_client before acquire, or passed on
\* to acquire with a core demand and a cache key
Admission(data, file) ==
    IF data.type = "invalid"
    THEN [pass |-> FALSE, outcome |-> Raised(BadRequest)]
    ELSE IF data.type # "dict"
    THEN [pass |-> FALSE, outcome |-> Refused(<<"Invalid JSON payload">>)]
    ELSE IF data.arguments.type # "list" \/ data.directory.type # "str"
    THEN [pass |-> FALSE, outcome |-> Refused(<<"Payload must have list 'arguments' and str 'directory'">>)]
    ELSE IF BadDirectory(data.directory.val)
    THEN [pass |-> FALSE, outcome |-> Refused(<<"Invalid directory">>)]
    ELSE LET parsed == ParseKnownArgs(data.arguments.val)
             n == NcoresJob(data.arguments.val, file)
         IN  IF ~parsed.found
             THEN [pass |-> FALSE, outcome |-> Raised(ParserExit)]
             ELSE IF n.raised
             THEN [pass |-> FALSE, outcome |-> Raised(n.exc)]
             ELSE [pass |-> TRUE, outcome |-> NoOutcome,
                   ncores_job |-> n.ncores, key |-> KeyOfArgs(parsed.rest)]

\* ---------------------------------------------------------------------
\* The worker entry point: what _run_calc_in_process raises when calc.run raised e
\* ---------------------------------------------------------------------

\* `except Exception as e: raise CalculatorRuntimeException(buf.getvalue()) from e`
RunFailure(e, stdout) ==
    IF IsException(e) THEN CalculatorRuntimeException(stdout) ELSE e

NoFuture == [state |-> "none", result |-> NoOutcome]
Finished(o) == [state |-> "finished", result |-> o]

\* the server after main() started it with --nthreads n, before any request
Started(n, ks, q, m, cs) ==
    /\ total = n
    /\ argsets = ks
    /\ nreq = q
    /\ maxout = m
    /\ chars = cs
    /\ nsent = 0
    /\ available = n
    /\ pc = [t \in 1 .. n |-> "idle"]
    /\ demand = [t \in 1 .. n |-> 0]
    /\ key = [t \in 1 .. n |-> NoKey]
    /\ outcome = [t \in 1 .. n |-> NoOutcome]
    /\ response = [t \in 1 .. n |-> NoResponse]
    /\ fut = [t \in 1 .. n |-> NoFuture]
    /\ queue = <<>>
    /\ broken = FALSE
    /\ wphase = [w \in 1 .. n |-> "idle"]
    /\ wjob = [w \in 1 .. n |-> NoThread]
    /\ cache = [w \in 1 .. n |-> <<>>]
    /\ calc = [w \in 1 .. n |-> NoInst]
    /\ buf = [w \in 1 .. n |-> <<>>]
    /\ ninst = [w \in 1 .. n |-> 0]
    /\ acqs = [t \in 1 .. n |-> 0]
    /\ rels = [t \in 1 .. n |-> 0]
    /\ held = [t \in 1 .. n |-> 0]
    /\ written = [t \in 1 .. n |-> <<>>]
    /\ ended = [t \in 1 .. n |-> "none"]
    /\ served = [w \in 1 .. n |-> [k \in Keys |-> NoInst]]
    /\ evicted = [w \in 1 .. n |-> {}]
    /\ down = "up"

\* a server with Total threads whose clients all pass the same method arguments
\* and whose backends print at most one character
Init == Started(Total, {"k1"}, NReq, 1, {"a"})

\* a server with Total threads whose backends print nothing
InitRoute == Started(Total, {"k1"}, NReq, 0, {"a"})

\* a server with the default single thread whose clients vary the method arguments
InitWorker == Started(DefaultThreads, Keys, NJobs, MaxOut, Chars)

\* ---------------------------------------------------------------------
\* A server thread: calculate -> handle_client
\* ---------------------------------------------------------------------

\* the dispatcher hands the next request to a free thread (the first one:
\* free threads do not differ)
Free(t) == pc[t] \in {"idle", "done"}
Fresh(t) ==
    /\ Free(t)
    /\ \A u \in Threads : Free(u) => t <= u
    /\ nsent < nreq
    /\ nsent' = nsent + 1
    /\ response' = [response EXCEPT ![t] = NoResponse]

\* handle_client up to the call of acquire: the arguments are parsed (giving
\* the cache key k) and get_ncores_from_input reads the core demand d
ParseOk(t, d, k) ==
    /\ Fresh(t)
    /\ pc' = [pc EXCEPT ![t] = "acquire"]
    /\ demand' = [demand EXCEPT ![t] = d]
    /\ key' = [key EXCEPT ![t] = k]
    /\ UNCHANGED <<confVars, limiterVars, outcome, poolVars, workerVars, runVars>>

\* get_ncores_from_input raises (missing file, malformed or non-positive count)
ParseFail(t, type) ==
    /\ Fresh(t)
    /\ pc' = [pc EXCEPT ![t] = "respond"]
    /\ outcome' = [outcome EXCEPT ![t] = Raised(InputError(type))]
    /\ UNCHANGED <<confVars, limiterVars, demand, key, poolVars, workerVars, runVars>>

\* the bodies the clients post: no JSON, no object, members of the wrong
\* type, directories that cannot be used, argument lists without an input
\* file, and well-formed requests for each set of method arguments
Bodies ==
    {NotJson, JList(<<InputName>>),
     JDict(JStr(InputName), JStr(WorkDir)), JDict(JList(<<InputName>>), JNull),
     JDict(JList(<<InputName>>), JStr(MissingDir)),
     JDict(JList(<<InputName>>), JStr(PlainFile)),
     JDict(JList(<<>>), JStr(WorkDir)), JDict(JList(<<Flag>>), JStr(WorkDir))}
    \cup {JDict(JList(<<InputName>> \o ArgsOfKey(k)), JStr(WorkDir)) : k \in argsets}
    \cup {JDict(JList(ArgsOfKey(k) \o <<InputName>>), JStr(WorkDir)) : k \in argsets}

\* what the input file of a request can hold when handle_client reads it
InputFiles ==
    {NoFile, ShortInput, OrcaInput("x"), OrcaInput("0"), OrcaInput("-1")}
    \cup {OrcaInput(Numerals[d]) : d \in Demands}

\* the input file matters to the requests whose argument list names one in
\* an existing directory: no other request gets to get_ncores_from_input
NamesInput(data) ==
    IF data.type # "dict" THEN FALSE
    ELSE IF data.arguments.type # "list" \/ data.directory.type # "str" THEN FALSE
    ELSE IsDir(data.directory.val) /\ ParseKnownArgs(data.arguments.val).found
InputFilesOf(data) == IF NamesInput(data) THEN InputFiles ELSE {NoFile}

\* calculate for a request with body data, up to the call of acquire
Calculate(t, data, file) ==
    /\ Fresh(t)
    /\ LET a == Admission(data, file)
       IN  IF a.pass
           THEN /\ pc' = [pc EXCEPT ![t] = "acquire"]
                /\ demand' = [demand EXCEPT ![t] = a.ncores_job]
                /\ key' = [key EXCEPT ![t] = a.key]
                /\ UNCHANGED outcome
           ELSE /\ pc' = [pc EXCEPT ![t] = "respond"]
                /\ outcome' = [outcome EXCEPT ![t] = a.outcome]
                /\ UNCHANGED <<demand, key>>
    /\ UNCHANGED <<confVars, limiterVars, poolVars, workerVars, runVars>>

\* mutant: the health check gives the budget back
Healthz_ResetsBudget(t) ==
    /\ Free(t)
    /\ \A u \in Threads : Free(u) => t <= u
    /\ response' = [response EXCEPT ![t] = HealthResponse]
    /\ pc' = [pc EXCEPT ![t] = "done"]
    /\ available' = total
    /\ UNCHANGED <<confVars, nsent, acqs, rels, held, demand, key, outcome, poolVars,
                   workerVars, runVars>>

\* healthz, served by a free thread
Healthz(t) ==
    /\ Free(t)
    /\ \A u \in Threads : Free(u) => t <= u
    /\ response' = [response EXCEPT ![t] = HealthResponse]
    /\ pc' = [pc EXCEPT ![t] = "done"]
    /\ UNCHANGED <<confVars, nsent, limiterVars, demand, key, outcome, poolVars,
                   workerVars, runVars>>

\* mutant: `if` in place of `while`, the predicate is not checked after wait()
AcquireBody_NoRecheck(t) ==
    IF pc[t] = "acquire" /\ TooLarge(demand[t])
    THEN /\ pc' = [pc EXCEPT ![t] = "respond"]
         /\ outcome' = [outcome EXCEPT ![t] = Raised(CapacityError)]
         /\ UNCHANGED <<available, acqs, held>>
    ELSE IF pc[t] = "acquire" /\ MustWait(demand[t], available)
    THEN /\ pc' = [pc EXCEPT ![t] = "waiting"]
         /\ UNCHANGED <<available, acqs, held, outcome>>
    ELSE /\ available' = available - demand[t]
         /\ acqs' = [acqs EXCEPT ![t] = @ + 1]
         /\ held' = [held EXCEPT ![t] = @ + demand[t]]
         /\ pc' = [pc EXCEPT ![t] = "admitted"]
         /\ UNCHANGED outcome

\* the critical section of acquire, entered with pc = "acquire" (the call)
\* or pc = "notified" (return from wait())
AcquireBody(t) ==
    IF pc[t] = "acquire" /\ TooLarge(demand[t])
    THEN /\ pc' = [pc EXCEPT ![t] = "respond"]
         /\ outcome' = [outcome EXCEPT ![t] = Raised(CapacityError)]
         /\ UNCHANGED <<available, acqs, held>>
    ELSE IF MustWait(demand[t], available)
    THEN /\ pc' = [pc EXCEPT ![t] = "waiting"]
         /\ UNCHANGED <<available, acqs, held, outcome>>
    ELSE /\ available' = available - demand[t]
         /\ acqs' = [acqs EXCEPT ![t] = @ + 1]
         /\ held' = [held EXCEPT ![t] = @ + demand[t]]
         /\ pc' = [pc EXCEPT ![t] = "admitted"]
         /\ UNCHANGED outcome

Acquire(t) ==
    /\ pc[t] = "acquire"
    /\ AcquireBody(t)
    /\ UNCHANGED <<confVars, nsent, demand, key, response, rels, poolVars, workerVars, runVars>>

\* wait() returned after a notify_all or spuriously: the predicate is checked again
Recheck(t) ==
    /\ pc[t] = "notified"
    /\ AcquireBody(t)
    /\ UNCHANGED <<confVars, nsent, demand, key, response, rels, poolVars, workerVars, runVars>>

\* wait() returns without a notification
SpuriousWake(t) ==
    /\ pc[t] = "waiting"
    /\ pc' = [pc EXCEPT ![t] = "notified"]
    /\ UNCHANGED <<confVars, nsent, demand, key, outcome, response, limiterVars, poolVars,
                   workerVars, runVars>>

\* mutant: release after the try block, skipped when an exception passes
LeaveTry_NoFinally(t, o) ==
    /\ IF o.kind = "exc"
       THEN UNCHANGED <<available, rels, held>> /\ pc' = [pc EXCEPT ![t] = "respond"]
       ELSE /\ available' = Released(available, FinallyRelease(demand[t]))
            /\ rels' = [rels EXCEPT ![t] = @ + 1]
            /\ held' = [held EXCEPT ![t] = @ - FinallyRelease(demand[t])]
            /\ pc' = [NotifyAll(pc) EXCEPT ![t] = "respond"]
    /\ outcome' = [outcome EXCEPT ![t] = o]
    /\ demand' = [demand EXCEPT ![t] = 0]
    /\ UNCHANGED acqs

\* the finally clause: release, then the result or the exception leaves
\* handle_client (ncores_job is not read again)
LeaveTry(t, o) ==
    /\ available' = Released(available, FinallyRelease(demand[t]))
    /\ rels' = [rels EXCEPT ![t] = @ + 1]
    /\ held' = [held EXCEPT ![t] = @ - FinallyRelease(demand[t])]
    /\ pc' = [NotifyAll(pc) EXCEPT ![t] = "respond"]
    /\ outcome' = [outcome EXCEPT ![t] = o]
    /\ demand' = [demand EXCEPT ![t] = 0]
    /\ UNCHANGED acqs

\* mutant: the job is submitted before acquire has returned
Submit_BeforeAcquire(t) ==
    /\ pc[t] \in {"acquire", "admitted"}
    /\ IF broken
       THEN /\ LeaveTry(t, Raised(BrokenProcessPool))
            /\ UNCHANGED <<fut, queue>>
       ELSE IF down # "up"
       THEN /\ LeaveTry(t, Raised(ShutdownError))
            /\ UNCHANGED <<fut, queue>>
       ELSE /\ fut' = [fut EXCEPT ![t] = [state |-> "pending", result |-> NoOutcome]]
            /\ queue' = Append(queue, t)
            /\ pc' = [pc EXCEPT ![t] = "submitted"]
            /\ UNCHANGED <<limiterVars, outcome, demand>>
    /\ UNCHANGED <<confVars, nsent, key, response, broken, workerVars, runVars>>

\* self.executor.submit(...): queued, or raising when the pool is broken or
\* shut down
Submit(t) ==
    /\ pc[t] = "admitted"
    /\ IF broken
       THEN /\ LeaveTry(t, Raised(BrokenProcessPool))
            /\ UNCHANGED <<fut, queue>>
       ELSE IF down # "up"
       THEN /\ LeaveTry(t, Raised(ShutdownError))
            /\ UNCHANGED <<fut, queue>>
       ELSE /\ fut' = [fut EXCEPT ![t] = [state |-> "pending", result |-> NoOutcome]]
            /\ queue' = Append(queue, t)
            /\ pc' = [pc EXCEPT ![t] = "submitted"]
            /\ UNCHANGED <<limiterVars, outcome, demand>>
    /\ UNCHANGED <<confVars, nsent, key, response, broken, workerVars, runVars>>

\* fut.result() returns or raises, then the finally clause runs
Await(t) ==
    /\ pc[t] = "submitted"
    /\ fut[t].state = "finished"
    /\ LeaveTry(t, fut[t].result)
    /\ fut' = [fut EXCEPT ![t] = NoFuture]
    /\ UNCHANGED <<confVars, nsent, key, response, queue, broken, workerVars, runVars>>

\* calculate: jsonify(result), or the except clause; the locals of the request
\* go out of scope, and its history with them
Respond(t) ==
    /\ pc[t] = "respond"
    /\ response' = [response EXCEPT ![t] = CalculateResponse(outcome[t])]
    /\ pc' = [pc EXCEPT ![t] = "done"]
    /\ key' = [key EXCEPT ![t] = NoKey]
    /\ outcome' = [outcome EXCEPT ![t] = NoOutcome]
    /\ acqs' = [acqs EXCEPT ![t] = 0]
    /\ rels' = [rels EXCEPT ![t] = 0]
    /\ held' = [held EXCEPT ![t] = 0]
    /\ written' = [written EXCEPT ![t] = <<>>]
    /\ ended' = [ended EXCEPT ![t] = "none"]
    /\ UNCHANGED <<confVars, nsent, available, demand, poolVars, workerVars>>

\* ---------------------------------------------------------------------
\* A worker process of the pool
\* ---------------------------------------------------------------------

\* the worker takes the next work item and runs _run_calc_in_process up to
\* the call of calc.run; meas are the memory readings it will get
WorkerTake(w, constructs, meas) ==
    /\ wphase[w] = "idle"
    /\ ~broken
    /\ queue # <<>>
    /\ LET t == Head(queue)
           p == PrepareCalc(cache[w], key[t], ninst[w], constructs, meas)
           before == CacheKeys(cache[w]) \cup CacheKeys(p.cache)
       IN  /\ queue' = Tail(queue)
           /\ IF p.failed
              THEN /\ fut' = [fut EXCEPT ![t] = Finished(Raised(AcrossProcess(p.exc)))]
                   /\ cache' = [cache EXCEPT ![w] = p.cache]
                   /\ ninst' = [ninst EXCEPT ![w] = p.ninst]
                   /\ evicted' = [evicted EXCEPT ![w] = @ \cup (before \ CacheKeys(p.cache))]
                   /\ UNCHANGED <<wphase, wjob, calc, buf, served, ended>>
              ELSE /\ fut' = [fut EXCEPT ![t] = [state |-> "running", result |-> NoOutcome]]
                   /\ wphase' = [wphase EXCEPT ![w] = "run"]
                   /\ wjob' = [wjob EXCEPT ![w] = t]
                   /\ cache' = [cache EXCEPT ![w] = p.cache]
                   /\ calc' = [calc EXCEPT ![w] = p.calc]
                   /\ ninst' = [ninst EXCEPT ![w] = p.ninst]
                   /\ buf' = [buf EXCEPT ![w] = <<>>]
                   /\ served' = [served EXCEPT ![w][key[t]] =
                                    IF @ = NoInst THEN p.calc ELSE @]
                   /\ evicted' = [evicted EXCEPT ![w] = @ \cup (before \ CacheKeys(p.cache))]
                   /\ UNCHANGED ended
    /\ UNCHANGED <<confVars, nsent, available, pc, demand, key, outcome, response,
                   acqs, rels, held, broken, written>>

\* mutant: the redirected stdout is shared by the running workers
CalcWrite_Shared(w, c) ==
    /\ wphase[w] = "run"
    /\ Len(buf[w]) < maxout
    /\ buf' = [v \in Workers |-> IF wphase[v] = "run" THEN Append(buf[v], c) ELSE buf[v]]
    /\ written' = [written EXCEPT ![wjob[w]] = Append(@, c)]
    /\ UNCHANGED <<confVars, nsent, available, pc, demand, key, outcome, response,
                   acqs, rels, held, poolVars, wphase, wjob, cache, calc, ninst,
                   ended, served, evicted>>

\* calc.run prints a character
CalcWrite(w, c) ==
    /\ wphase[w] = "run"
    /\ Len(buf[w]) < maxout
    /\ buf' = [buf EXCEPT ![w] = Append(@, c)]
    /\ written' = [written EXCEPT ![wjob[w]] = Append(@, c)]
    /\ UNCHANGED <<confVars, nsent, available, pc, demand, key, outcome, response,
                   acqs, rels, held, poolVars, wphase, wjob, cache, calc, ninst,
                   ended, served, evicted>>

\* _run_calc_in_process ends: the result or the exception goes to the future
WorkerDone(w, o, how) ==
    /\ fut' = [fut EXCEPT ![wjob[w]] = Finished(o)]
    /\ ended' = [ended EXCEPT ![wjob[w]] = how]
    /\ wphase' = [wphase EXCEPT ![w] = "idle"]
    /\ wjob' = [wjob EXCEPT ![w] = NoThread]
    /\ calc' = [calc EXCEPT ![w] = NoInst]
    /\ buf' = [buf EXCEPT ![w] = <<>>]
    /\ UNCHANGED <<confVars, nsent, available, pc, demand, key, outcome, response,
                   acqs, rels, held, queue, broken, cache, ninst, written, served, evicted>>

\* calc.run returns: `return buf.getvalue()`
CalcReturn(w) ==
    /\ wphase[w] = "run"
    /\ WorkerDone(w, Returned(buf[w]), "returned")

\* calc.run raises an exception of the given type
CalcRaise(w, type) ==
    /\ wphase[w] = "run"
    /\ WorkerDone(w, Raised(AcrossProcess(RunFailure(BackendError(type), buf[w]))), "raised")

\* the worker process dies during the run: the executor marks itself broken,
\* fails every pending future and terminates the other workers
WorkerCrash(w) ==
    /\ wphase[w] = "run"
    /\ broken' = TRUE
    /\ fut' = [t \in Threads |->
                 IF fut[t].state \in {"pending", "running"}
                 THEN Finished(Raised(BrokenProcessPool))
                 ELSE fut[t]]
    /\ written' = [t \in Threads |->
                     IF \E v \in Workers : wphase[v] = "run" /\ wjob[v] = t
                     THEN <<>> ELSE written[t]]
    /\ queue' = <<>>
    /\ wphase' = [v \in Workers |-> "dead"]
    /\ wjob' = [v \in Workers |-> NoThread]
    /\ cache' = [v \in Workers |-> <<>>]
    /\ calc' = [v \in Workers |-> NoInst]
    /\ buf' = [v \in Workers |-> <<>>]
    /\ UNCHANGED <<confVars, nsent, available, pc, demand, key, outcome, response,
                   acqs, rels, held, ninst, ended, served, evicted>>

Next ==
    \/ \E t \in Threads, d \in Demands, k \in argsets : ParseOk(t, d, k)
    \/ \E t \in Threads, type \in {"FileNotFoundError", "ValueError"} : ParseFail(t, type)
    \/ \E t \in Threads : Acquire(t)
    \/ \E t \in Threads : SpuriousWake(t)
    \/ \E t \in Threads : Recheck(t)
    \/ \E t \in Threads : Submit(t)
    \/ \E t \in Threads : Await(t)
    \/ \E t \in Threads : Respond(t)
    \/ \E w \in Workers, constructs \in BOOLEAN, meas \in Readings(Cardinality(argsets)) : WorkerTake(w, constructs, meas)
    \/ \E w \in Workers, c \in chars : CalcWrite(w, c)
    \/ \E w \in Workers : CalcReturn(w)
    \/ \E w \in Workers, type \in BackendExcTypes : CalcRaise(w, type)
    \/ \E w \in Workers : WorkerCrash(w)

\* the server under concurrent load
Spec == Init /\ [][Next]_vars

\* the steps of the single-threaded server: its one thread never waits
NextWorker ==
    \/ \E t \in Threads, d \in Demands, k \in argsets : ParseOk(t, d, k)
    \/ \E t \in Threads, type \in {"FileNotFoundError", "ValueError"} : ParseFail(t, type)
    \/ \E t \in Threads : Acquire(t)
    \/ \E t \in Threads : Submit(t)
    \/ \E t \in Threads : Await(t)
    \/ \E t \in Threads : Respond(t)
    \/ \E w \in Workers, constructs \in BOOLEAN, meas \in Readings(Cardinality(argsets)) : WorkerTake(w, constructs, meas)
    \/ \E w \in Workers, c \in chars : CalcWrite(w, c)
    \/ \E w \in Workers : CalcReturn(w)
    \/ \E w \in Workers, type \in BackendExcTypes : CalcRaise(w, type)
    \/ \E w \in Workers : WorkerCrash(w)

\* the single-threaded server: one worker process serving the jobs in turn
SpecWorker == InitWorker /\ [][NextWorker]_vars

\* the steps of the server seen from its two routes (no step of a backend
\* that prints)
NextRoute ==
    \/ \E t \in Threads, data \in Bodies : \E file \in InputFilesOf(data) : Calculate(t, data, file)
    \/ \E t \in Threads : Healthz(t)
    \/ \E t \in Threads : Acquire(t)
    \/ \E t \in Threads : SpuriousWake(t)
    \/ \E t \in Threads : Recheck(t)
    \/ \E t \in Threads : Submit(t)
    \/ \E t \in Threads : Await(t)
    \/ \E t \in Threads : Respond(t)
    \/ \E w \in Workers, constructs \in BOOLEAN, meas \in Readings(Cardinality(argsets)) : WorkerTake(w, constructs, meas)
    \/ \E w \in Workers : CalcReturn(w)
    \/ \E w \in Workers, type \in BackendExcTypes : CalcRaise(w, type)
    \/ \E w \in Workers : WorkerCrash(w)

\* the server under concurrent load with the requests as the clients post
\* them, serving a backend that prints nothing
SpecRoute == InitRoute /\ [][NextRoute]_vars

\* the two routes of the single-threaded server
NextRouteSingle ==
    \/ \E t \in Threads, data \in Bodies : \E file \in InputFilesOf(data) : Calculate(t, data, file)
    \/ \E t \in Threads : Healthz(t)
    \/ \E t \in Threads : Acquire(t)
    \/ \E t \in Threads : Submit(t)
    \/ \E t \in Threads : Await(t)
    \/ \E t \in Threads : Respond(t)
    \/ \E w \in Workers, constructs \in BOOLEAN, meas \in Readings(Cardinality(argsets)) : WorkerTake(w, constructs, meas)
    \/ \E w \in Workers, c \in chars : CalcWrite(w, c)
    \/ \E w \in Workers : CalcReturn(w)
    \/ \E w \in Workers, type \in BackendExcTypes : CalcRaise(w, type)
    \/ \E w \in Workers : WorkerCrash(w)

\* the single-threaded server with the requests as the clients post them,
\* with and without method-specific arguments
SpecRouteSingle == InitWorker /\ [][NextRouteSingle]_vars

\* ---------------------------------------------------------------------
\* SIGTERM: cleanup_and_exit
\* ---------------------------------------------------------------------

\* the main thread receives SIGTERM and calls
\* executor.shutdown(wait=True, cancel_futures=True): the executor refuses
\* new work and cancels the futures that are still pending. A work item that
\* the executor has already put on its call queue is no longer pending (its
\* future is RUNNING although no worker has picked it up) and is not
\* cancelled: of the queued items the first n were put on the call queue
Sigterm(n) ==
    /\ down = "up"
    /\ down' = "stopping"
    /\ queue' = SubSeq(queue, 1, n)
    /\ fut' = [t \in Threads |->
                 IF \E i \in (n + 1) .. Len(queue) : queue[i] = t
                 THEN Finished(Raised(CancelledError))
                 ELSE fut[t]]
    /\ UNCHANGED <<runConf, nsent, limiterVars, pc, demand, key, outcome, response,
                   broken, workerVars, runVars>>

\* shutdown(wait=True) returns when the work on the call queue is done and
\* the worker processes have ended; parser.exit(0) then ends the process,
\* its threads with it
Exit ==
    /\ down = "stopping"
    /\ queue = <<>>
    /\ \A w \in Workers : wphase[w] # "run"
    /\ down' = "exited"
    /\ pc' = [t \in Threads |-> "exited"]
    /\ wphase' = [w \in Workers |-> "dead"]
    /\ cache' = [w \in Workers |-> <<>>]
    /\ UNCHANGED <<runConf, nsent, limiterVars, demand, key, outcome, response,
                   poolVars, wjob, calc, buf, ninst, served, evicted, runVars>>

\* the steps of a server that is told to terminate while it serves requests
NextShutdown ==
    \/ \E t \in Threads, d \in Demands, k \in argsets : ParseOk(t, d, k)
    \/ \E t \in Threads, type \in {"FileNotFoundError", "ValueError"} : ParseFail(t, type)
    \/ \E t \in Threads : Acquire(t)
    \/ \E t \in Threads : Recheck(t)
    \/ \E t \in Threads : Submit(t)
    \/ \E t \in Threads : Await(t)
    \/ \E t \in Threads : Respond(t)
    \/ \E w \in Workers, constructs \in BOOLEAN, meas \in Readings(Cardinality(argsets)) : WorkerTake(w, constructs, meas)
    \/ \E w \in Workers : CalcReturn(w)
    \/ \E w \in Workers, type \in BackendExcTypes : CalcRaise(w, type)
    \/ \E n \in 0 .. Len(queue) : Sigterm(n)
    \/ Exit

\* the server under concurrent load, serving a backend that prints nothing,
\* until it is terminated
SpecShutdown == InitRoute /\ [][NextShutdown]_vars

\* fair scheduling: a thread that can take its next step in handle_client takes
\* it, an idle worker picks up queued work, and every backend run ends
ThreadStep(t) == Acquire(t) \/ Recheck(t) \/ Submit(t) \/ Await(t) \/ Respond(t)
WorkerPick(w) == \E constructs \in BOOLEAN, meas \in Readings(Cardinality(argsets)) : WorkerTake(w, constructs, meas)
RunEnds(w) == CalcReturn(w) \/ (\E type \in BackendExcTypes : CalcRaise(w, type)) \/ WorkerCrash(w)

FairSpec ==
    /\ Spec
    /\ \A t \in 1 .. Total : WF_vars(ThreadStep(t))
    /\ \A w \in 1 .. Total : WF_vars(WorkerPick(w)) /\ WF_vars(RunEnds(w))

\* ---------------------------------------------------------------------
\* Properties
\* ---------------------------------------------------------------------

Holding(t) == pc[t] \in {"admitted", "submitted"}

RECURSIVE SumDemand(_)
SumDemand(S) ==
    IF S = {} THEN 0
    ELSE LET t == CHOOSE x \in S : TRUE IN demand[t] + SumDemand(S \ {t})

\* C1: in every reachable state of concurrent handle_client requests the
\* limiter satisfies 0 <= available <= total.
C1_BudgetInRange == 0 <= available /\ available <= total

\* a woken waiter while another job holds every core
C1_Witness == available = 0 /\ \E t \in Threads : pc[t] = "notified"

\* C2: release runs exactly once, with the acquired amount, for every acquire
\* that returned, on every path out of the try block, and not at all for an
\* acquire that raised.
C2_ReleaseOncePerAcquire ==
    \A t \in Threads :
        /\ rels[t] <= acqs[t] /\ acqs[t] <= 1
        /\ Holding(t) => acqs[t] = 1 /\ rels[t] = 0 /\ held[t] = demand[t]
        /\ pc[t] = "respond" => rels[t] = acqs[t] /\ held[t] = 0
        /\ (pc[t] = "respond" /\ outcome[t] = Raised(CapacityError)) => rels[t] = 0

\* a job that failed after admission and whose cores were released once
C2_Witness ==
    \E t \in Threads :
        pc[t] = "respond" /\ outcome[t] = Raised(BrokenProcessPool) /\ rels[t] = 1

\* C3: the demands of the jobs submitted to the pool and not yet released sum
\* to at most total, and so do the demands of the jobs being executed.
C3_SubmittedWithinTotal ==
    /\ SumDemand({t \in Threads : pc[t] = "submitted"}) <= total
    /\ \A w \in Workers : wphase[w] = "run" => pc[wjob[w]] = "submitted"
    /\ \A w, v \in Workers :
          (wphase[w] = "run" /\ wphase[v] = "run" /\ w # v) => wjob[w] # wjob[v]

\* two backend runs in progress that use up the budget
C3_Witness ==
    /\ \A w \in Workers : wphase[w] = "run"
    /\ SumDemand({t \in Threads : pc[t] = "submitted"}) = total

\* C4: whenever no job is between an acquire that returned and its release,
\* available = total, and a job demanding total cores is then admitted.
C4_AllBack == (\A t \in Threads : ~Holding(t)) => available = total
C4_Admits ==
    \A t \in Threads :
        ((\A u \in Threads : ~Holding(u)) /\ pc[t] = "acquire" /\ demand[t] = total
            /\ pc'[t] # pc[t])
        => pc'[t] = "admitted"
C4_BudgetRestored == []C4_AllBack /\ [][C4_Admits]_vars

\* after a failed job, a job demanding every core holds them
C4_Witness ==
    \E t, u \in Threads :
        /\ response[t].status = "Error"
        /\ response[t].error_type = "CalculatorRuntimeException"
        /\ pc[u] = "admitted" /\ demand[u] = total

\* C5: acquire(n) with n > total raises the capacity error at once, in every
\* state of the limiter: the thread never waits and available is unchanged.
C5_Step ==
    \A t \in Threads :
        /\ (pc[t] = "acquire" /\ demand[t] > total /\ pc'[t] # pc[t])
           => /\ pc'[t] = "respond"
              /\ outcome'[t] = Raised(CapacityError)
              /\ available' = available
              /\ acqs'[t] = 0
        /\ pc'[t] \in {"waiting", "notified", "admitted", "submitted"} => demand'[t] <= total
C5_FailFast == [][C5_Step]_vars

\* an oversize request refused while another job holds cores
C5_Witness ==
    \E t \in Threads :
        pc[t] = "respond" /\ outcome[t] = Raised(CapacityError) /\ available < total

\* C6: acquire(n) with n <= available returns at once and takes exactly n;
\* with available < n <= total it waits, checks the predicate again after
\* every wakeup, and the job is dispatched only after acquire returned; two
\* jobs that each demand every core never hold them together.
C6_Step ==
    \A t \in Threads :
        /\ (pc[t] \in {"acquire", "notified"} /\ demand[t] <= available /\ pc'[t] # pc[t])
           => pc'[t] = "admitted" /\ available' = available - demand[t]
        /\ (pc[t] \in {"acquire", "notified"} /\ available < demand[t]
                /\ demand[t] <= total /\ pc'[t] # pc[t])
           => pc'[t] = "waiting" /\ available' = available
        /\ (pc[t] = "waiting" /\ pc'[t] # pc[t]) => pc'[t] = "notified"
        /\ (pc'[t] = "submitted" /\ pc[t] # "submitted") => pc[t] = "admitted"
C6_Exclusive ==
    \A t, u \in Threads :
        (t # u /\ Holding(t) /\ demand[t] = total) => ~Holding(u)
C6_AcquireBlocks == []C6_Exclusive /\ [][C6_Step]_vars

\* the second job demanding every core waits while the first one runs
C6_Witness ==
    \E t, u \in Threads :
        /\ pc[t] = "submitted" /\ demand[t] = total
        /\ pc[u] = "waiting" /\ demand[u] = total

C8_AlwaysSameInstance ==
    \A w \in Workers : wphase[w] = "run" => calc[w] = served[w][key[wjob[w]]]

\* C8 as amended: every job of a key is served by the instance that served the
\* first job of that key, as long as the key's entry was never evicted.
C8_SameInstanceUnlessEvicted ==
    \A w \in Workers :
        (wphase[w] = "run" /\ key[wjob[w]] \notin evicted[w])
        => calc[w] = served[w][key[wjob[w]]]

\* a job served by the cached instance of its key after a job with another key
C8_Witness ==
    \E w \in Workers :
        /\ wphase[w] = "run" /\ key[wjob[w]] \notin evicted[w]
        /\ Len(cache[w]) = 2
        /\ calc[w] < ninst[w]

\* C9: eviction never removes the protected key: when a job's run starts, the
\* entry of its key is in the worker's cache, is the most recently used one and
\* holds the instance that runs the job.
C9_ProtectedKept ==
    \A w \in Workers :
        wphase[w] = "run"
        => /\ cache[w] # <<>>
           /\ cache[w][Len(cache[w])] = Entry(key[wjob[w]], calc[w])

\* the protected key is the only entry left after an eviction
C9_Witness ==
    \E w \in Workers :
        /\ wphase[w] = "run"
        /\ Len(cache[w]) = 1
        /\ evicted[w] # {}

\* C10: if a backend's run prints text and then raises, the Error response of
\* the job carries a stdout field equal to the text printed.
C10_Step ==
    \A t \in Threads :
        (pc[t] = "respond" /\ pc'[t] = "done" /\ ended[t] = "raised" /\ written[t] # <<>>)
        => /\ response'[t].status = "Error"
           /\ "stdout" \in DOMAIN response'[t]
           /\ response'[t].stdout = written[t]
C10_StdoutOnFailure == [][C10_Step]_vars

\* ---------------------------------------------------------------------
\* Properties of the routes
\* ---------------------------------------------------------------------

\* what a step of a request that is not admitted must leave alone: the budget,
\* the pool and the caches of the workers
C11_Untouched ==
    /\ available' = available
    /\ queue' = queue /\ fut' = fut /\ broken' = broken
    /\ cache' = cache /\ ninst' = ninst /\ wphase' = wphase

\* a body calculate refuses, or an input file get_ncores_from_input cannot use
C11_BadPayload(data) ==
    IF data.type # "dict" THEN TRUE
    ELSE IF data.arguments.type # "list" \/ data.directory.type # "str" THEN TRUE
    ELSE data.directory.val # WorkDir
C11_BadInput(file) ==
    \/ ~file.exists
    \/ Len(file.lines) < 4
    \/ \A d \in 1 .. Len(Numerals) : file.lines[4] # Numerals[d]

\* C11: a request rejected for an admission error (body not a JSON object,
\* arguments not a list, directory not a string or not an existing directory,
\* input file unreadable or malformed, core demand greater than total) is
\* not passed on to acquire, or fails in acquire, and goes to its response
\* without changing available, the pool or any worker cache and without an
\* acquire that returned.
\* (which requests are passed on depends on the configuration only; it is
\* stated of the states in which a request is passed on)
C11_NotAdmitted ==
    \A data \in Bodies, file \in InputFiles :
        (C11_BadPayload(data) \/ C11_BadInput(file)) => ~Admission(data, file).pass
C11_Step ==
    \A t \in Threads :
        /\ (Free(t) /\ pc'[t] = "acquire") => C11_NotAdmitted
        /\ (Free(t) /\ pc'[t] = "respond")
           => acqs'[t] = 0 /\ C11_Untouched
        /\ (pc[t] = "acquire" /\ demand[t] > total /\ pc'[t] # pc[t])
           => pc'[t] = "respond" /\ acqs'[t] = 0 /\ C11_Untouched
        /\ (pc[t] = "respond" /\ acqs[t] = 0 /\ pc'[t] = "done")
           => response'[t].status # "Success" /\ C11_Untouched
C11_RejectionConsumesNothing == [][C11_Step]_vars

\* a request refused for its directory while a job of another request runs
\* on a worker that holds a calculator
C11_Witness ==
    \E t, u \in Threads :
        /\ pc[t] = "respond" /\ outcome[t] = Refused(<<"Invalid directory">>)
        /\ pc[u] = "submitted" /\ available < total
        /\ \E w \in Workers : wphase[w] = "run" /\ cache[w] # <<>>

\* arguments that are no list or an empty list, a directory that does not
\* exist or is no directory
C12_Invalid(data) ==
    IF data.type # "dict" \/ data.directory.type # "str" THEN FALSE
    ELSE IF data.arguments.type # "list" THEN TRUE
    ELSE data.arguments.val = <<>> \/ data.directory.val # WorkDir

\* C12: a request whose arguments value is not a list or is an empty list, or
\* whose directory is not an existing directory, is not passed on to
\* CoreLimiter.acquire, and a request that is not passed on to acquire is
\* answered with an Error response.
C12_NotPassedOn ==
    \A data \in Bodies, file \in InputFiles : C12_Invalid(data) => ~Admission(data, file).pass
C12_Step ==
    \A t \in Threads :
        /\ (Free(t) /\ pc'[t] = "acquire") => C12_NotPassedOn
        /\ (Free(t) /\ pc'[t] = "respond") => outcome'[t].kind \in {"refused", "exc"}
        /\ (pc[t] = "respond" /\ acqs[t] = 0 /\ pc'[t] = "done")
           => response'[t].status = "Error"
C12_ValidatedBeforeAdmission == [][C12_Step]_vars

\* the failure class of an Error response, told by how it was produced: the
\* refusals of calculate (bad request), the capacity error of acquire (server
\* saturated), the exception of a failed run with its captured text (backend
\* computation failed)
C13_Class(r) ==
    IF r.status # "Error" THEN "none"
    ELSE IF r.error_message \in {<<"Invalid JSON payload">>, <<"Invalid directory">>,
                                 <<"Payload must have list 'arguments' and str 'directory'">>}
    THEN "bad request"
    ELSE IF r.error_message = Str(CapacityError) THEN "server saturated"
    ELSE IF "stdout" \in DOMAIN r THEN "backend computation failed"
    ELSE "none"

\* C13: Error responses of different failure classes (bad request, server
\* saturated, backend computation failed) never carry the same error_type.
C13_DistinctErrorTypes ==
    \A t, u \in Threads :
        (C13_Class(response[t]) # "none" /\ C13_Class(response[u]) # "none"
            /\ C13_Class(response[t]) # C13_Class(response[u]))
        => response[t].error_type # response[u].error_type

\* the two shapes of a response of /calculate
C14_IsSuccess(r) == r.status = "Success" /\ DOMAIN r = {"status", "stdout"}
C14_IsError(r) ==
    /\ r.status = "Error"
    /\ {"status", "error_type", "error_message"} \subseteq DOMAIN r
    /\ DOMAIN r \subseteq {"status", "error_type", "error_message", "stdout", "traceback"}

\* C14: calculate answers every request with a JSON object that is either
\* {status: Success, stdout} or {status: Error, error_type, error_message, ...},
\* and the response for a run that failed has stdout and traceback as well.
C14_Step ==
    \A t \in Threads :
        (pc[t] = "respond" /\ pc'[t] = "done")
        => /\ C14_IsSuccess(response'[t]) \/ C14_IsError(response'[t])
           /\ ended[t] = "raised" => {"stdout", "traceback"} \subseteq DOMAIN response'[t]
C14_AlwaysJsonResponse == [][C14_Step]_vars

\* the core count an input file declares: the number on its fourth line
C15_Declared(file) == IntOf(file.lines[4])

\* C15: the number of cores a job acquires and releases is the core count
\* declared in its input file: requests that differ in their other arguments
\* only get the same demand from the same file, the demand handle_client goes
\* to acquire with is the declared count, and acquire and release move
\* available by exactly that demand.
C15_SameFileSameCores ==
    \A file \in InputFiles : \A d1, d2 \in Bodies :
        (Admission(d1, file).pass /\ Admission(d2, file).pass)
        => /\ Admission(d1, file).ncores_job = Admission(d2, file).ncores_job
           /\ Admission(d1, file).ncores_job = C15_Declared(file)
C15_Step ==
    \A t \in Threads :
        /\ (Free(t) /\ pc'[t] = "acquire") => C15_SameFileSameCores
        /\ (Free(t) /\ pc'[t] = "acquire")
           => \A data \in Bodies : \A file \in InputFilesOf(data) :
                 Calculate(t, data, file) => demand'[t] = C15_Declared(file)
        /\ (pc[t] = "acquire" /\ pc'[t] = "admitted")
           => available' = available - demand[t] /\ held'[t] = demand[t]
        /\ (Holding(t) /\ pc'[t] = "respond")
           => available' = available + held[t] /\ held'[t] = 0
C15_DemandFromInputFile == [][C15_Step]_vars

\* a request with a method-specific argument holds the one core its input
\* file declares, after a request without that argument held as many
C15_Witness ==
    \E t \in Threads :
        /\ pc[t] = "submitted" /\ key[t] = "k2" /\ held[t] = 1 /\ demand[t] = 1
        /\ \E w \in Workers : Len(cache[w]) = 2

\* C16: a memory reading that cannot be taken never fails the job: no job's
\* future ends with the exception of the reading.
C16_MeasurementNeverFailsJob ==
    \A t \in Threads : fut[t] # Finished(Raised(AcrossProcess(MeasureError)))

\* C17: a /healthz request is answered with {status: OK} and changes neither
\* the core budget, nor the pool, nor a worker or its cache, nor the request
\* of any thread, whatever the server is doing.
C17_Step ==
    \A t \in Threads :
        Healthz(t)
        => /\ response'[t] = [status |-> "OK"]
           /\ available' = available
           /\ queue' = queue /\ fut' = fut /\ broken' = broken
           /\ cache' = cache /\ ninst' = ninst /\ wphase' = wphase /\ wjob' = wjob
           /\ \A u \in Threads \ {t} : pc'[u] = pc[u] /\ response'[u] = response[u]
C17_HealthzNoSideEffects == [][C17_Step]_vars

\* the health check answered while a job holds cores and runs on a worker
\* that has a calculator in its cache
C17_Witness ==
    \E t, u \in Threads :
        /\ response[t] = HealthResponse /\ pc[t] = "done"
        /\ pc[u] = "submitted" /\ available < total
        /\ \E w \in Workers : wphase[w] = "run" /\ wjob[w] = u /\ cache[w] # <<>>

\* ---------------------------------------------------------------------
\* Properties of the life of a job
\* ---------------------------------------------------------------------

\* the steps of a request in their order: parse, acquire (with its waits),
\* submit, await, release, response
C18_Order ==
    {<<"idle", "acquire">>, <<"done", "acquire">>, <<"idle", "respond">>, <<"done", "respond">>,
     <<"acquire", "waiting">>, <<"acquire", "admitted">>, <<"acquire", "respond">>,
     <<"waiting", "notified">>, <<"notified", "waiting">>, <<"notified", "admitted">>,
     <<"admitted", "submitted">>, <<"admitted", "respond">>, <<"submitted", "respond">>,
     <<"respond", "done">>}

\* C18: a request takes its steps in the order parse, acquire, submit, await,
\* release, response: its job is in the pool only after its acquire returned
\* and before its release, and the response of an admitted job is produced
\* only after its cores were released.
C18_InPoolWhileHolding ==
    \A t \in Threads :
        fut[t].state # "none" => pc[t] = "submitted" /\ acqs[t] = 1 /\ rels[t] = 0
C18_Step ==
    \A t \in Threads :
        /\ pc'[t] # pc[t] => <<pc[t], pc'[t]>> \in C18_Order
        /\ (pc[t] = "respond" /\ pc'[t] = "done" /\ acqs[t] = 1)
           => rels[t] = 1 /\ held[t] = 0 /\ fut[t].state = "none"
C18_StepsInOrder == []C18_InPoolWhileHolding /\ [][C18_Step]_vars

\* the result of a job was awaited and its cores are back, the response is
\* still to be produced
C18_Witness ==
    \E t \in Threads :
        /\ pc[t] = "respond" /\ outcome[t].kind = "ok"
        /\ acqs[t] = 1 /\ rels[t] = 1 /\ response[t] = NoResponse

\* C19: the end of one job's run (return, exception or death of its worker)
\* changes neither the future of another job nor another worker, and a job
\* that was admitted is always dispatched to the pool.
C19_Step ==
    /\ \A w \in Workers :
          (wphase[w] = "run" /\ wphase'[w] # "run")
          => /\ \A t \in Threads \ {wjob[w]} : fut'[t] = fut[t]
             /\ \A v \in Workers \ {w} : wphase'[v] = wphase[v]
    /\ \A t \in Threads :
          (pc[t] = "admitted" /\ pc'[t] # "admitted") => pc'[t] = "submitted"
C19_JobsIndependent == [][C19_Step]_vars

C21_Exit(c, k, meas) ==
    LET r == _evict_until_within_limits(c, meas, MemLimit, k)
        n == Len(c) - Len(r.cache)
    IN  /\ ~r.raised
        /\ n <= Len(c)
        /\ \A i \in 1 .. n : meas[i] > Target(MemLimit)
        /\ \/ meas[n + 1] <= Target(MemLimit)
           \/ CacheKeys(r.cache) \subseteq {k}

\* the worker takes a job
C21_Takes(w) ==
    /\ wphase[w] = "idle"
    /\ ~broken
    /\ queue # <<>>
    /\ queue' = Tail(queue)

\* C21: whenever a worker gets as far as the eviction for a job, the eviction
\* ends by returning, after at most as many removals as there are cached
\* entries, each removal made after a reading above the threshold; when it
\* returns the latest reading is within the threshold or only the protected
\* entry is left, and nothing is raised.
C21_EvictionEnds ==
    [][\A w \in Workers :
          C21_Takes(w) =>
             LET k == key[Head(queue)]
                 g == GetOrCreate(cache[w], k, ninst[w], TRUE)
             IN  \A meas \in Readings(Cardinality(argsets)) :
                    C21_Exit(g.cache, k, meas)]_vars

\* ---------------------------------------------------------------------
\* C22: the cache is kept in the order of last use
\* ---------------------------------------------------------------------

\* the keys of a cache, least recently used first
C22_Order(c) == [i \in 1 .. Len(c) |-> c[i].key]

\* the last n elements of a sequence, in their order
C22_Last(s, n) == SubSeq(s, Len(s) - n + 1, Len(s))

\* a job with key k that got its calculator turns the order old into new:
\* k becomes the most recently used key, the keys removed are the first ones
\* of old that are not k (the unprotected keys used longest ago), and the
\* keys that stay keep their order
C22_Used(old, new, k) ==
    LET others == SelectSeq(old, LAMBDA x : x # k)
    IN  /\ new # <<>>
        /\ new[Len(new)] = k
        /\ Len(new) - 1 <= Len(others)
        /\ SubSeq(new, 1, Len(new) - 1) = C22_Last(others, Len(new) - 1)

\* C22: the order of a worker's cache is the order in which its keys were
\* last used by a job of that worker: a job that finds or constructs its
\* calculator makes its key the most recently used one, an eviction removes
\* the unprotected keys used longest ago, nothing else reorders the cache
\* (a job whose construction fails uses no calculator and leaves it alone;
\* the cache of a dead worker is gone).
C22_LeastRecentlyUsedEvicted ==
    [][\A w \in Workers :
          IF C21_Takes(w)
          THEN LET k == key[Head(queue)]
               IN  IF k \in CacheKeys(cache'[w])
                   THEN C22_Used(C22_Order(cache[w]), C22_Order(cache'[w]), k)
                   ELSE cache'[w] = cache[w]
          ELSE cache'[w] = cache[w] \/ wphase'[w] = "dead"]_vars

\* a worker whose second calculator was evicted by a later job of the first
\* key: when that job came the first key was the older entry, the hit made it
\* the most recently used one, and the eviction took the other
C22_Witness ==
    \E w \in Workers :
       /\ ninst[w] = 2
       /\ Len(cache[w]) = 1
       /\ cache[w][1].inst = 1
       /\ evicted[w] # {}
       /\ wphase[w] = "run"

\* ---------------------------------------------------------------------
\* C23: what the cache key depends on
\* ---------------------------------------------------------------------

\* option dicts: every choice of options with their values, in every
\* insertion order
C23_Items == {Item(OptionNames[i], v) : i \in 1 .. Len(OptionNames), v \in OptionValues}
C23_Dicts ==
    {<<>>} \cup {<<x>> : x \in C23_Items}
    \cup {<<p[1], p[2]>> : p \in {q \in C23_Items \X C23_Items : q[1][1] # q[2][1]}}
\* unparsed argument lists
C23_Tokens == {Flag, "--tight"}
C23_Unparsed ==
    {<<>>} \cup {<<a>> : a \in C23_Tokens} \cup {<<a, b>> : a \in C23_Tokens, b \in C23_Tokens}
\* input file names and working directories
C23_Inputs == {InputName, "other.inp"}
C23_Directories == {WorkDir, "/scratch"}

\* a dict as the map it is: two dicts are equal when they have the same items
C23_AsMap(items) == {items[i] : i \in 1 .. Len(items)}

C23_Key(inputfile, args_parsed, args_not_parsed, directory) ==
    MethodKey(CalcModule, CalcClass,
              RunKwargs(inputfile, args_parsed, args_not_parsed, directory))

\* equal keys exactly for equal option maps and equal unparsed sequences
C23_EqualIff ==
    \A p1 \in C23_Dicts, p2 \in C23_Dicts, u1 \in C23_Unparsed, u2 \in C23_Unparsed :
       (C23_Key(InputName, p1, u1, WorkDir) = C23_Key(InputName, p2, u2, WorkDir))
          <=> (C23_AsMap(p1) = C23_AsMap(p2) /\ u1 = u2)

\* the input file and the working directory do not enter the key
C23_PathFree ==
    \A p \in C23_Dicts, u \in C23_Unparsed, i \in C23_Inputs, d \in C23_Directories :
       C23_Key(i, p, u, d) = C23_Key(InputName, p, u, WorkDir)

\* C23: two jobs get equal cache keys exactly when their parsed option maps
\* are equal (in whatever order the options were put in) and their unparsed
\* argument sequences are equal; the key does not depend on the input file
\* path or the working directory (the content of the input file is not among
\* the data the key is derived from). Stated for the first request the
\* server admits; the key names of the model stand for distinct keys.
C23_KeyFromMethodArguments ==
    [][\A t \in Threads :
          (nsent = 0 /\ Free(t) /\ pc'[t] = "acquire") =>
             /\ C23_EqualIff
             /\ C23_PathFree
             /\ \A k \in Keys : KeyOfArgs(ArgsOfKey(k)) = k
             /\ key'[t] \in argsets]_vars

\* the third job runs on the first calculator of the worker although a
\* second one was constructed in between: its key equals the first job's,
\* the second job's differs
C23_Witness ==
    \E w \in Workers :
       /\ wphase[w] = "run"
       /\ calc[w] = 1
       /\ ninst[w] = 2
       /\ Len(cache[w]) = 2

\* ---------------------------------------------------------------------
\* C24: a job whose worker dies
\* ---------------------------------------------------------------------

\* the error types the responses carry when a backend's run raised
C24_RunErrorTypes ==
    {ErrorResponse(AcrossProcess(RunFailure(BackendError(type), <<>>))).error_type :
        type \in {x \in BackendExcTypes : IsException(BackendError(x))}}

\* C24: once a worker has died no job is left waiting in the pool (the future
\* of every submitted job is finished, so fut.result() returns at once, and
\* a later submit raises), and the job is answered with an Error response
\* whose error_type is none of those reported for a run that raised.
C24_DeadWorkerReported ==
    [][\A t \in Threads :
          /\ (broken' /\ pc'[t] = "submitted") => fut'[t].state = "finished"
          /\ (broken /\ pc[t] = "admitted" /\ pc'[t] # "admitted") =>
                (pc'[t] = "respond" /\ outcome'[t] = Raised(BrokenProcessPool))
          /\ (pc[t] = "respond" /\ pc'[t] = "done" /\ outcome[t] = Raised(BrokenProcessPool)) =>
                /\ response'[t].status = "Error"
                /\ response'[t].error_type \notin C24_RunErrorTypes]_vars

\* a request answered with the error of the broken pool
C24_Witness ==
    \E t \in Threads :
       /\ pc[t] = "done"
       /\ response[t].status = "Error"
       /\ response[t].error_type = "BrokenProcessPool"

\* ---------------------------------------------------------------------
\* C25: termination
\* ---------------------------------------------------------------------

\* C25: when the termination signal arrives the jobs that are executing go
\* on (they are neither cancelled nor taken from their workers), every job
\* that was submitted and has not started is cancelled, no job starts after
\* the signal, and the process exits only when no job is executing.
C25_GracefulShutdown ==
    [][/\ (down = "up" /\ down' = "stopping") =>
             /\ \A w \in Workers :
                   wphase[w] = "run" =>
                      /\ wphase'[w] = "run"
                      /\ wjob'[w] = wjob[w]
                      /\ fut'[wjob[w]] = fut[wjob[w]]
             /\ \A i \in 1 .. Len(queue) :
                   fut'[queue[i]] = Finished(Raised(CancelledError))
       /\ down # "up" =>
             \A w \in Workers : ~(queue # <<>> /\ queue' = Tail(queue) /\ wphase[w] = "idle")
       /\ down' = "exited" =>
             \A w \in Workers : wphase[w] # "run"]_vars

\* ---------------------------------------------------------------------
\* C26: the core demand is positive
\* ---------------------------------------------------------------------

\* the requests that name an input file declaring less than one core
C26_Rejected ==
    \A data \in Bodies, ncores \in {"0", "-1"} :
       LET a == Admission(data, OrcaInput(ncores))
       IN  /\ ~a.pass
           /\ NamesInput(data) => a.outcome = Raised(NotPositive)

\* C26: every core demand passed to acquire is an integer of at least one
\* (and so is the demand of every request that waits in acquire or holds
\* cores); a request whose input file declares less than one core leaves
\* handle_client with the ValueError of get_ncores_from_input before acquire.
C26_DemandPositive ==
    [][\A t \in Threads :
          /\ (Free(t) /\ pc'[t] = "acquire") =>
                (demand'[t] \in Nat /\ demand'[t] >= 1 /\ C26_Rejected)
          /\ pc[t] \in {"acquire", "waiting", "notified", "admitted", "submitted"} =>
                (demand[t] \in Nat /\ demand[t] >= 1)]_vars

\* a request was answered with the error of the sanity check, and a request
\* of the same server is in acquire with its demand
C26_Witness ==
    /\ \E t \in Threads :
          /\ pc[t] = "done"
          /\ response[t].status = "Error"
          /\ response[t].error_message = Str(NotPositive)
    /\ \E t \in Threads : pc[t] = "acquire" /\ demand[t] >= 1

\* ---------------------------------------------------------------------
\* C27: the pool is never oversubscribed
\* ---------------------------------------------------------------------

\* the jobs submitted to the pool whose future is not finished
C27_InPool == {t \in Threads : fut[t].state \in {"pending", "running"}}

\* C27: the jobs submitted to the pool and not finished are never more than
\* the worker processes, and while the pool works every queued job has an
\* idle worker to itself: no job waits in the queue behind another one.
C27_PoolNotOversubscribed ==
    /\ Cardinality(C27_InPool) <= Cardinality(Workers)
    /\ ~broken => Len(queue) <= Cardinality({w \in Workers : wphase[w] = "idle"})

\* as many jobs in the pool as there are workers, one of them still queued
C27_Witness ==
    /\ Cardinality(C27_InPool) = total
    /\ total > 1
    /\ queue # <<>>

\* ---------------------------------------------------------------------
\* C28: what the response tells about a failed run
\* ---------------------------------------------------------------------

\* C28: whatever a backend's run raises, the job is answered with an Error
\* response whose error_type is CalculatorRuntimeException and whose
\* error_message is the text the run printed; neither field holds the type
\* or the message of the backend's own exception.
C28_RunFailureHidden ==
    [][\A t \in Threads :
          (pc[t] = "respond" /\ pc'[t] = "done" /\ ended[t] = "raised") =>
             /\ response'[t].status = "Error"
             /\ response'[t].error_type = "CalculatorRuntimeException"
             /\ response'[t].error_message = written[t]
             /\ \A type \in BackendExcTypes :
                   /\ response'[t].error_type # BackendError(type).type
                   /\ response'[t].error_message # Str(BackendError(type))]_vars

\* ---------------------------------------------------------------------
\* C29: the stdout of a job is its own
\* ---------------------------------------------------------------------

\* C29: the stdout returned for a job is the text written during that job's
\* own run and nothing else: a worker runs one job at a time, the buffer of
\* a running job holds what this job has written so far, and the stdout of
\* the response is what the job had written when its run ended.
C29_OwnStdoutOnly ==
    [][/\ \A w \in Workers :
             wphase[w] = "run" =>
                /\ buf[w] = written[wjob[w]]
                /\ \A v \in Workers : (wphase[v] = "run" /\ wjob[v] = wjob[w]) => v = w
       /\ \A t \in Threads :
             (pc[t] = "respond" /\ pc'[t] = "done" /\ "stdout" \in DOMAIN response'[t]) =>
                response'[t].stdout = written[t]]_vars

\* two requests answered, one with the text its run printed, the other with
\* the empty text of a run that printed nothing
C29_Witness ==
    \E t \in Threads, u \in Threads :
       /\ t # u
       /\ response[t].status = "Success" /\ response[t].stdout # <<>>
       /\ response[u].status = "Success" /\ response[u].stdout = <<>>

\* ---------------------------------------------------------------------
\* C30: a calculator that cannot be constructed
\* ---------------------------------------------------------------------

\* the job of thread t ended with the exception of the construction
C30_ConstructionFailed(t) ==
    fut'[t] = Finished(Raised(AcrossProcess(ConstructError)))

====
